---- MODULE Spec2Model ----
(***************************************************************************)
(* nav (kevin-cantwell/nav, src/main.go): an interactive fuzzy finder for  *)
(* directories.  The model covers the input dispatcher (pollEvents), the   *)
(* event loop (run), the query editor (searchBox), the result index        *)
(* (resultsBox), the crawler (resultsBox.Init / readirs) and the repaint   *)
(* goroutines (draw).  Paths and queries are sequences of one-character    *)
(* strings.  Every method that takes a mutex is one atomic action; every   *)
(* `go` statement adds a task to the bag of goroutines that have been      *)
(* started and have not yet run.  searchBox.Score reads the query without  *)
(* its mutex: the Race actions are the passes over the candidates that an  *)
(* edit of the query overlaps.                                             *)
(***************************************************************************)
EXTENDS Integers, Sequences, FiniteSets, TLC

(***************************************************************************)
(* Bounds of the model.                                                    *)
(***************************************************************************)
\* terminal events PollEvent returns during one session
MaxInputs == 3
\* rows of the terminal (termbox.Size); the list shows Height - 3 rows
Height == 4
\* goroutines of one kind that have been started and have not yet run
MaxTasks == 1

(***************************************************************************)
(* Characters.  CharOrder lists the characters used in byte order, which   *)
(* is the order Go's string comparison uses.                               *)
(***************************************************************************)
CharOrder == <<" ", ".", "/", "A", "B", "a", "b", "c", "r">>

Rank(c) == CHOOSE i \in 1..Len(CharOrder) : CharOrder[i] = c

\* s[i:] of Go, i counted from 0
Drop(s, i) == SubSeq(s, i + 1, Len(s))

\* s[:i] of Go
Take(s, i) == SubSeq(s, 1, i)

\* A Go string is a sequence of bytes.  An ASCII character is one byte, written
\* as the character.  Two runes of more than one byte are in use: U+00E9,
\* written "E9", with the bytes C3 A9, and U+FFFD (utf8.RuneError), written
\* "FFFD", with the bytes EF BF BD.
RuneError == "FFFD"

Utf8(c) ==
    CASE c = "E9" -> <<"C3", "A9">>
      [] c = RuneError -> <<"EF", "BF", "BD">>
      [] OTHER -> <<c>>

\* b < utf8.RuneSelf
IsASCII(b) == b \notin {"C3", "A9", "EF", "BF", "BD"}

\* unicode.ToLower on the runes in use
ToLower(c) == IF c = "A" THEN "a" ELSE IF c = "B" THEN "b" ELSE c

\* strings.ToLower of a string of ASCII bytes
LowerSeq(s) == [i \in 1..Len(s) |-> ToLower(s[i])]

\* the bytes of the rune that starts s: the whole encoding when s starts with
\* a valid one, else the one invalid byte
FirstRune(s) ==
    IF IsASCII(s[1]) THEN <<s[1]>>
    ELSE IF Len(s) >= 2 /\ Take(s, 2) = Utf8("E9") THEN Take(s, 2)
    ELSE IF Len(s) >= 3 /\ Take(s, 3) = Utf8(RuneError) THEN Take(s, 3)
    ELSE <<s[1]>>

\* the rune a range loop or utf8.DecodeRune reads from the bytes bs of
\* FirstRune: an invalid byte reads as utf8.RuneError
Decoded(bs) ==
    IF bs = Utf8("E9") THEN "E9"
    ELSE IF IsASCII(bs[1]) THEN bs[1]
    ELSE RuneError

\* []rune(s)
RECURSIVE Runes(_)
Runes(s) ==
    IF s = <<>> THEN <<>>
    ELSE <<Decoded(FirstRune(s))>> \o Runes(Drop(s, Len(FirstRune(s))))

\* strings.Map(unicode.ToLower, s): every rune read from s, an invalid byte
\* included, is written back in its UTF-8 encoding
RECURSIVE MapToLower(_)
MapToLower(s) ==
    IF s = <<>> THEN <<>>
    ELSE Utf8(ToLower(Decoded(FirstRune(s))))
         \o MapToLower(Drop(s, Len(FirstRune(s))))

\* strings.ToLower
ToLowerString(s) ==
    IF \A i \in 1..Len(s) : IsASCII(s[i]) THEN LowerSeq(s) ELSE MapToLower(s)

\* strings.Index: 0-based index of the first occurrence of the bytes sub in s
Index(s, sub) ==
    LET at == {i \in 1..(Len(s) - Len(sub) + 1) : SubSeq(s, i, i + Len(sub) - 1) = sub}
    IN  IF at = {} THEN -1 ELSE (CHOOSE i \in at : \A j \in at : i <= j) - 1

\* the case r == utf8.RuneError of strings.IndexRune: the index of the first
\* rune of s, from byte i on, that reads as utf8.RuneError
RECURSIVE IndexRuneError(_, _)
IndexRuneError(s, i) ==
    IF i >= Len(s) THEN -1
    ELSE IF Decoded(FirstRune(Drop(s, i))) = RuneError THEN i
    ELSE IndexRuneError(s, i + Len(FirstRune(Drop(s, i))))

\* strings.IndexRune: 0-based byte index of the first c in s, -1 when absent
IndexRune(s, c) ==
    IF c = RuneError THEN IndexRuneError(s, 0) ELSE Index(s, Utf8(c))

\* the < of Go strings: byte-wise lexicographic order
RECURSIVE StrLess(_, _)
StrLess(s, t) ==
    IF t = <<>> THEN FALSE
    ELSE IF s = <<>> THEN TRUE
    ELSE IF Head(s) = Head(t) THEN StrLess(Tail(s), Tail(t))
    ELSE Rank(Head(s)) < Rank(Head(t))

(***************************************************************************)
(* The directory tree the crawler walks.  basepath is /r; it holds the     *)
(* directories ab, bA and c, and c holds c.  readirs sends one batch per   *)
(* directory that has subdirectories, in the order ReadDir lists them.     *)
(***************************************************************************)
basepath == <<"/", "r">>

DirAb == basepath \o <<"/", "a", "b">>
DirBA == basepath \o <<"/", "b", "A">>
DirC  == basepath \o <<"/", "c">>
DirCC == basepath \o <<"/", "c", "/", "c">>

\* batch 1: the children of basepath; batch 2: the children of /r/c
Batches == <<  <<DirAb, DirBA, DirC>>, <<DirCC>>  >>

BatchIds == 1..Len(Batches)

AllDirs == {basepath, DirAb, DirBA, DirC, DirCC}

(***************************************************************************)
(* searchBox.displayPath and searchBox.Score                               *)
(***************************************************************************)
\* filepath.Rel(basepath, path) for a path at or below basepath
displayPath(path) ==
    IF path = basepath THEN <<".">> ELSE Drop(path, Len(basepath) + 1)

\* The loop of Score.  A score is the pair <<n, d>> standing for the
\* float32 n/d: <<0, 1>> is 0 and <<1, w>> is 1/w.
RECURSIVE ScoreLoop(_, _, _, _)
ScoreLoop(qs, partial, i, score) ==
    IF qs = <<>> THEN <<1, score>>
    ELSE LET p == ToLowerString(Drop(partial, i))
             k == IndexRune(p, ToLower(Head(qs)))
         IN  IF k < 0 THEN <<0, 1>>
             ELSE ScoreLoop(Tail(qs), p, k + 1, score + k + 1)

Score(q, path) ==
    IF Len(q) = 0 THEN <<1, 1>> ELSE ScoreLoop(q, displayPath(path), 0, 1)

\* comparisons of two scores
ScoreGt(s, t) == s[1] * t[2] > t[1] * s[2]

ScoreEq(s, t) == s[1] * t[2] = t[1] * s[2]

Positive(s) == s[1] > 0

\* what the Score calls of one pass over the candidates return when no edit
\* runs during the pass
ScoresOf(q) == [p \in AllDirs |-> Score(q, p)]

(***************************************************************************)
(* The data race on searchBox.value.  Score reads b.value without          *)
(* searchBox.mu while InsertRune and the Delete methods write it: the runes *)
(* in place in the backing array, then the slice header.  A Score call     *)
(* that runs during an edit from old to new reads a query with the length  *)
(* of old or of new and, at each position, the rune of old or of new.  Of  *)
(* the Score calls of one pass over a list, those that return before the   *)
(* edit read old and those that start after it read new.                   *)
(***************************************************************************)
RuneAt(s, i) == IF i <= Len(s) THEN {s[i]} ELSE {}

Views(old, new) ==
    {q \in UNION {[1..n -> RuneAt(old, 1) \cup RuneAt(old, 2) \cup RuneAt(old, 3)
                           \cup RuneAt(new, 1) \cup RuneAt(new, 2) \cup RuneAt(new, 3)]
                    : n \in {Len(old), Len(new)}} :
        \A i \in 1..Len(q) : q[i] \in RuneAt(old, i) \cup RuneAt(new, i)}

\* 1-based position of path in list, 0 when absent
Pos(list, path) ==
    IF \E i \in 1..Len(list) : list[i] = path
    THEN CHOOSE i \in 1..Len(list) : list[i] = path
    ELSE 0

\* what the Score calls of one pass over list return when the edit runs
\* during call k of the pass
RacingScores(list, old, new) ==
    {[p \in AllDirs |->
          IF Pos(list, p) < k THEN Score(old, p)
          ELSE IF Pos(list, p) > k THEN Score(new, p)
          ELSE Score(q, p)] :
        k \in 1..Len(list), q \in Views(old, new)}

(***************************************************************************)
(* State.                                                                  *)
(***************************************************************************)
VARIABLES
    value,            \* searchBox.value: the query
    cursorOffsetX,    \* searchBox.cursorOffsetX
    filepaths,        \* resultsBox.filepaths: every candidate found so far
    matches,          \* resultsBox.matches
    selected,         \* resultsBox.selected
    displayOffsetY,   \* resultsBox.displayOffsetY: first row shown
    tasks,            \* goroutines started and not yet run, by kind
    phase,            \* main: running, returned, closed, exited, panicked
    result,           \* what run returned
    initPc,           \* resultsBox.Init: "start" before its first append
    delivered,        \* batches Init has received from the dirs channel
    prev,             \* pollEvents: evType of the previous mouse event
    sending,          \* pollEvents: the event its blocking send offers
    inputs,           \* terminal events polled so far
    outstanding,      \* keyboard commands sent and not yet received by run
    painting,         \* draw: the query part of the frame being painted
    frame,            \* the frame flushed last
    scored,           \* what the Score call under study returned
    owner,            \* the goroutine that holds each sync.Mutex, 0 when free
    goroutines,       \* what each goroutine has still to do with the mutexes
    issued            \* commands run has handled in the study of the mutexes

program == <<value, cursorOffsetX, filepaths, matches, selected, displayOffsetY,
             tasks, phase, result>>
crawler == <<initPc, delivered>>
dispatcher == <<prev, sending, inputs, outstanding>>
screen == <<painting, frame>>
\* the variables of the specifications that study one part of the program on
\* its own; the program as a whole leaves them alone
locks == <<owner, goroutines, issued>>
aside == <<scored, locks>>
vars == <<program, crawler, dispatcher, screen, aside>>

(***************************************************************************)
(* Events (type event) and the goroutines                                  *)
(***************************************************************************)
Event(t, c, x, y, s) ==
    [evType |-> t, ch |-> c, mouseX |-> x, mouseY |-> y, src |-> s]

\* no event: an empty slot of the model, not a value of the program
NoEvent == Event("none", "", 0, 0, "none")

\* event{}: evType 0 is EventMoveCursorForwardOneRune
ZeroEvent == Event("EventMoveCursorForwardOneRune", "", 0, 0, "mouse")

KeyEvent(t, c) == Event(t, c, 0, 0, "key")

MouseEvent(t, x, y) == Event(t, "", x, y, "mouse")

TaskKinds == {"draw", "Recalculate", "RecalcSelect", "SelectBestMatch",
              "MouseScrollUp", "MouseScrollDown", "ClickSend"}

\* The methods below are functions of the record r of the program's data:
\* value, cursor (cursorOffsetX), filepaths, matches, selected, off
\* (displayOffsetY), tasks, phase and result.
Cur ==
    [value |-> value, cursor |-> cursorOffsetX, filepaths |-> filepaths,
     matches |-> matches, selected |-> selected, off |-> displayOffsetY,
     tasks |-> tasks, phase |-> phase, result |-> result]

Set(r) ==
    /\ value' = r.value
    /\ cursorOffsetX' = r.cursor
    /\ filepaths' = r.filepaths
    /\ matches' = r.matches
    /\ selected' = r.selected
    /\ displayOffsetY' = r.off
    /\ tasks' = r.tasks
    /\ phase' = r.phase
    /\ result' = r.result

\* a `go` statement
Go(r, kind) == [r EXCEPT !.tasks[kind] = @ + 1]

\* the goroutine has run
Ran(r, kind) == [r EXCEPT !.tasks[kind] = @ - 1]

\* a step that starts goroutines is taken only when it leaves at most
\* MaxTasks goroutines of every kind
Fits(r) == \A k \in TaskKinds : r.tasks[k] <= MaxTasks

\* goroutines run until the process exits
Alive == phase \in {"running", "returned", "closed"}

\* an index out of range panic ends the process
Panic(r) == [r EXCEPT !.phase = "panicked"]

\* b.matches[i] of Go panics unless 0 <= i < len(b.matches)
InRange(i, ms) == 0 <= i /\ i < Len(ms)

(***************************************************************************)
(* draw(): starts the goroutine that repaints                              *)
(***************************************************************************)
draw(r) == Go(r, "draw")

(***************************************************************************)
(* resultsBox                                                              *)
(***************************************************************************)
\* the less function AppendFilepaths hands to sort.Slice; sc holds what
\* search.Score returns
Less(sc, a, b) ==
    LET si == sc[a]
        sj == sc[b]
    IN  IF ScoreEq(si, sj)
        THEN IF Len(a) = Len(b) THEN StrLess(a, b) ELSE Len(a) < Len(b)
        ELSE ScoreGt(si, sj)

RECURSIVE InsertSorted(_, _, _)
InsertSorted(sc, s, x) ==
    IF s = <<>> THEN <<x>>
    ELSE IF Less(sc, x, Head(s)) THEN <<x>> \o s
    ELSE <<Head(s)>> \o InsertSorted(sc, Tail(s), x)

\* sort.Slice(all, less): less is a strict total order on distinct paths
RECURSIVE SortSlice(_, _)
SortSlice(sc, all) ==
    IF all = <<>> THEN <<>>
    ELSE InsertSorted(sc, SortSlice(sc, Take(all, Len(all) - 1)), all[Len(all)])

\* AppendFilepaths whose Score calls return sc
AppendFilepathsBy(r, batch, sc) ==
    Go([r EXCEPT !.filepaths = SortSlice(sc, r.filepaths \o batch)], "Recalculate")

AppendFilepaths(r, batch) == AppendFilepathsBy(r, batch, ScoresOf(r.value))

\* the loop of Recalculate
RECURSIVE Filtered(_, _)
Filtered(sc, fps) ==
    IF fps = <<>> THEN <<>>
    ELSE (IF Positive(sc[Head(fps)]) THEN <<Head(fps)>> ELSE <<>>)
         \o Filtered(sc, Tail(fps))

\* Recalculate whose Score calls return sc
RecalculateBy(r, sc) ==
    LET ms == Filtered(sc, r.filepaths)
    IN  [r EXCEPT !.matches = ms,
                  !.selected = IF r.selected >= Len(ms) THEN Len(ms) - 1
                               ELSE r.selected]

Recalculate(r) == RecalculateBy(r, ScoresOf(r.value))

\* the loop of SelectBestMatch with `score >= bestScore`: of equal scores the
\* last one is kept
RECURSIVE BestLoopLast(_, _, _, _, _)
BestLoopLast(sc, ms, i, bestScore, sel) ==
    IF i >= Len(ms) THEN sel
    ELSE LET score == sc[ms[i + 1]]
         IN  IF ~ScoreGt(bestScore, score)
             THEN BestLoopLast(sc, ms, i + 1, score, i)
             ELSE BestLoopLast(sc, ms, i + 1, bestScore, sel)

\* the loop of SelectBestMatch from index i, 0-based
RECURSIVE BestLoop(_, _, _, _, _)
BestLoop(sc, ms, i, bestScore, sel) ==
    IF i >= Len(ms) THEN sel
    ELSE LET score == sc[ms[i + 1]]
         IN  IF ScoreGt(score, bestScore)
             THEN BestLoop(sc, ms, i + 1, score, i)
             ELSE BestLoop(sc, ms, i + 1, bestScore, sel)

\* SelectBestMatch whose Score calls return sc
SelectBestMatchBy(r, sc) ==
    [r EXCEPT !.selected = BestLoop(sc, r.matches, 0, <<0, 1>>, r.selected)]

SelectBestMatch(r) == SelectBestMatchBy(r, ScoresOf(r.value))

focusTop(r) == [r EXCEPT !.off = r.selected]

focusBottom(r) == [r EXCEPT !.off = r.selected - (Height - 3) + 1]

\* the two "selected is off screen" checks that end MoveSelectionDownOne
\* and MoveSelectionUpOne
Refocus(r) ==
    LET r1 == IF r.selected < r.off THEN focusTop(r) ELSE r
    IN  IF r1.off + (Height - 4) < r1.selected THEN focusBottom(r1) ELSE r1

MoveSelectionDownOne(r) ==
    Refocus(IF r.selected < Len(r.matches) - 1
            THEN [r EXCEPT !.selected = @ + 1] ELSE r)

MoveSelectionUpOne(r) ==
    Refocus(IF r.selected > 0 THEN [r EXCEPT !.selected = @ - 1] ELSE r)

MouseScrollDown(r) ==
    IF Height - 3 > Len(r.matches) - r.off THEN r ELSE [r EXCEPT !.off = @ + 1]

MouseScrollUp(r) ==
    IF r.off <= 0 THEN r ELSE [r EXCEPT !.off = @ - 1]

MousePress(r, y) ==
    IF y - 3 < 0 THEN Go(r, "MouseScrollUp")
    ELSE IF y - 3 >= Len(r.matches) THEN Go(r, "MouseScrollDown")
    ELSE [r EXCEPT !.selected = y + r.off - 3]

MouseClick(r, x, y) ==
    IF y + r.off - 3 # r.selected THEN r
    ELSE IF ~InRange(r.selected, r.matches) THEN Panic(r)
    ELSE IF x - 2 < 0 \/ x - 2 >= Len(displayPath(r.matches[r.selected + 1])) THEN r
    ELSE Go(r, "ClickSend")

\* run's `return results.Selected(), nil`
Selected(r) ==
    IF r.selected < 0 \/ Len(r.matches) = 0
    THEN [r EXCEPT !.phase = "returned", !.result = <<".">>]
    ELSE IF ~InRange(r.selected, r.matches) THEN Panic(r)
    ELSE [r EXCEPT !.phase = "returned", !.result = r.matches[r.selected + 1]]

(***************************************************************************)
(* searchBox: the editing methods                                          *)
(***************************************************************************)
delim(c) == c \in {"\\", "/", " ", ".", "\t", ",", "-", "|"}

word(c) == ~delim(c)

\* strings.TrimRightFunc and strings.TrimLeftFunc with delim or word
RECURSIVE TrimRightDelim(_)
TrimRightDelim(s) ==
    IF s # <<>> /\ delim(s[Len(s)]) THEN TrimRightDelim(Take(s, Len(s) - 1)) ELSE s

RECURSIVE TrimRightWord(_)
TrimRightWord(s) ==
    IF s # <<>> /\ word(s[Len(s)]) THEN TrimRightWord(Take(s, Len(s) - 1)) ELSE s

RECURSIVE TrimLeftDelim(_)
TrimLeftDelim(s) == IF s # <<>> /\ delim(Head(s)) THEN TrimLeftDelim(Tail(s)) ELSE s

RECURSIVE TrimLeftWord(_)
TrimLeftWord(s) == IF s # <<>> /\ word(Head(s)) THEN TrimLeftWord(Tail(s)) ELSE s

\* an edit that does not start the goroutine
GoNothing(r) == r

\* go func() { results.Recalculate(); results.SelectBestMatch() }()
GoRecalcSelect(r) == Go(r, "RecalcSelect")

InsertRune(r, c) ==
    GoRecalcSelect([r EXCEPT
        !.value = Take(r.value, r.cursor) \o <<c>> \o Drop(r.value, r.cursor),
        !.cursor = @ + 1])

MoveCursorOneRuneBackward(r) ==
    IF r.cursor <= 0 THEN r ELSE [r EXCEPT !.cursor = @ - 1]

\* MoveCursorOneRuneForward without its check of the end of the query
MoveCursorForwardUnchecked(r) == [r EXCEPT !.cursor = @ + 1]

MoveCursorOneRuneForward(r) ==
    IF r.cursor >= Len(r.value) THEN r ELSE [r EXCEPT !.cursor = @ + 1]

MoveCursorOneWordBackward(r) ==
    IF r.cursor <= 0 THEN r
    ELSE [r EXCEPT !.cursor = Len(TrimRightWord(TrimRightDelim(Take(r.value, r.cursor))))]

MoveCursorOneWordForward(r) ==
    IF r.cursor >= Len(r.value) THEN r
    ELSE [r EXCEPT !.cursor =
              Len(r.value) - Len(TrimLeftWord(TrimLeftDelim(Drop(r.value, r.cursor))))]

DeleteRuneBackward(r) ==
    IF r.cursor <= 0 THEN r
    ELSE GoRecalcSelect([r EXCEPT
             !.value = Take(r.value, r.cursor - 1) \o Drop(r.value, r.cursor),
             !.cursor = @ - 1])

DeleteWordBackward(r) ==
    IF r.cursor <= 0 THEN r
    ELSE LET prefix == TrimRightWord(TrimRightDelim(Take(r.value, r.cursor)))
         IN  GoRecalcSelect([r EXCEPT !.value = prefix \o Drop(r.value, r.cursor),
                                      !.cursor = Len(prefix)])

DeleteRuneForward(r) ==
    IF r.cursor >= Len(r.value) THEN r
    ELSE GoRecalcSelect([r EXCEPT
             !.value = Take(r.value, r.cursor) \o Drop(r.value, r.cursor + 1)])

(***************************************************************************)
(* run: what the body of `for ev := range eventCh` does with ev            *)
(***************************************************************************)
run(r, ev) ==
    CASE ev.evType = "EventSelected" -> Selected(r)
      [] ev.evType = "EventShutdown" -> [r EXCEPT !.phase = "returned", !.result = <<".">>]
      \* return ".", ev.err: main panics on the error
      [] ev.evType = "EventError" -> [r EXCEPT !.phase = "panicked", !.result = <<".">>]
      [] ev.evType = "EventInsertRune" -> draw(InsertRune(r, ev.ch))
      [] ev.evType = "EventMoveCursorBackwardOneRune" -> draw(MoveCursorOneRuneBackward(r))
      [] ev.evType = "EventMoveCursorBackwardOneWord" -> draw(MoveCursorOneWordBackward(r))
      [] ev.evType = "EventMoveCursorForwardOneRune" -> draw(MoveCursorOneRuneForward(r))
      [] ev.evType = "EventMoveCursorForwardOneWord" -> draw(MoveCursorOneWordForward(r))
      [] ev.evType = "EventDeleteRuneBackward" -> draw(DeleteRuneBackward(r))
      [] ev.evType = "EventDeleteRuneForward" -> draw(DeleteRuneForward(r))
      [] ev.evType = "EventDeleteWordBackward" -> draw(DeleteWordBackward(r))
      [] ev.evType = "EventMoveSelectionDownOne" -> draw(MoveSelectionDownOne(r))
      [] ev.evType = "EventMoveSelectionUpOne" -> draw(MoveSelectionUpOne(r))
      [] ev.evType \in {"EventMouseDrag", "EventMousePress"} ->
             draw(MousePress(r, ev.mouseY))
      [] ev.evType = "EventMouseScrollDown" -> draw(MouseScrollDown(r))
      [] ev.evType = "EventMouseScrollUp" -> draw(MouseScrollUp(r))
      [] ev.evType = "EventMouseClick" ->
             LET r1 == MouseClick(r, ev.mouseX, ev.mouseY)
             IN  IF r1.phase = "panicked" THEN r1 ELSE draw(r1)


\* var drawMutex, searchBox.mu, resultsBox.mu, debugBox.mu
Mutexes == {"drawMutex", "search.mu", "results.mu", "debug.mu"}

\* no goroutine of the study of the mutexes exists
NoLocks ==
    /\ owner = [m \in Mutexes |-> 0]
    /\ goroutines = <<>>
    /\ issued = 0

(***************************************************************************)
(* Init: main has initialised termbox and started pollEvents; run has      *)
(* started results.Init and called draw() once.                            *)
(***************************************************************************)
Init ==
    /\ value = <<>>
    /\ cursorOffsetX = 0
    /\ filepaths = <<>>
    /\ matches = <<>>
    /\ selected = 0
    /\ displayOffsetY = 0
    /\ tasks = [k \in TaskKinds |-> IF k = "draw" THEN 1 ELSE 0]
    /\ phase = "running"
    /\ result = <<>>
    /\ initPc = "start"
    /\ delivered = {}
    /\ prev = ZeroEvent.evType
    /\ sending = NoEvent
    /\ inputs = 0
    /\ outstanding = 0
    /\ painting = <<>>
    /\ frame = <<>>
    /\ scored = <<>>
    /\ NoLocks

(***************************************************************************)
(* The crawler: resultsBox.Init and readirs                                *)
(***************************************************************************)
\* b.AppendFilepaths([]string{search.basepath}); go readirs(search.basepath, dirs)
InitAppend ==
    /\ Alive
    /\ initPc = "start"
    /\ LET r == AppendFilepaths(Cur, <<basepath>>)
       IN  Fits(r) /\ Set(r)
    /\ initPc' = "loop"
    /\ UNCHANGED <<delivered, dispatcher, screen>>
    /\ UNCHANGED aside

\* One turn of `for filepaths := range dirs`: a readirs goroutine hands over
\* its batch, then AppendFilepaths and draw().  readirs starts the goroutines
\* of the subdirectories before it sends its own batch, so the batches arrive
\* in any order.
InitReceive(id) ==
    /\ Alive
    /\ initPc = "loop"
    /\ id \notin delivered
    /\ LET r == draw(AppendFilepaths(Cur, Batches[id]))
       IN  Fits(r) /\ Set(r)
    /\ delivered' = delivered \cup {id}
    /\ UNCHANGED <<initPc, dispatcher, screen>>
    /\ UNCHANGED aside

(***************************************************************************)
(* The goroutines the methods start                                        *)
(***************************************************************************)
\* go b.Recalculate() of AppendFilepaths
RunRecalculate ==
    /\ Alive
    /\ tasks["Recalculate"] > 0
    /\ Set(Recalculate(Ran(Cur, "Recalculate")))
    /\ UNCHANGED <<crawler, dispatcher, screen>>
    /\ UNCHANGED aside

\* results.Recalculate() of the goroutine of an edit
RunRecalcSelect ==
    /\ Alive
    /\ tasks["RecalcSelect"] > 0
    /\ Set(Go(Recalculate(Ran(Cur, "RecalcSelect")), "SelectBestMatch"))
    /\ UNCHANGED <<crawler, dispatcher, screen>>
    /\ UNCHANGED aside

\* results.SelectBestMatch() of the same goroutine
RunSelectBestMatch ==
    /\ Alive
    /\ tasks["SelectBestMatch"] > 0
    /\ Set(SelectBestMatch(Ran(Cur, "SelectBestMatch")))
    /\ UNCHANGED <<crawler, dispatcher, screen>>
    /\ UNCHANGED aside

\* go b.MouseScrollUp() and go b.MouseScrollDown() of MousePress
RunMouseScrollUp ==
    /\ Alive
    /\ tasks["MouseScrollUp"] > 0
    /\ Set(MouseScrollUp(Ran(Cur, "MouseScrollUp")))
    /\ UNCHANGED <<crawler, dispatcher, screen>>
    /\ UNCHANGED aside

RunMouseScrollDown ==
    /\ Alive
    /\ tasks["MouseScrollDown"] > 0
    /\ Set(MouseScrollDown(Ran(Cur, "MouseScrollDown")))
    /\ UNCHANGED <<crawler, dispatcher, screen>>
    /\ UNCHANGED aside

(***************************************************************************)
(* draw: one goroutine at a time holds drawMutex; search.Draw reads the    *)
(* query under search.mu, then results.Draw reads the list under           *)
(* results.mu, then termbox.Flush shows the frame.                         *)
(***************************************************************************)
DrawSearch ==
    /\ Alive
    /\ tasks["draw"] > 0
    /\ painting = <<>>
    /\ painting' = <<value, cursorOffsetX>>
    /\ Set(Ran(Cur, "draw"))
    /\ UNCHANGED <<crawler, dispatcher, frame>>
    /\ UNCHANGED aside

\* results.Draw starts at i = displayOffsetY and reads b.matches[i]
DrawResults ==
    /\ Alive
    /\ painting # <<>>
    /\ painting' = <<>>
    /\ IF displayOffsetY < 0
       THEN Set(Panic(Cur)) /\ UNCHANGED frame
       ELSE /\ frame' = [value |-> painting[1], cursor |-> painting[2],
                         matches |-> matches, selected |-> selected,
                         off |-> displayOffsetY]
            /\ UNCHANGED program
    /\ UNCHANGED <<crawler, dispatcher>>
    /\ UNCHANGED aside

(***************************************************************************)
(* pollEvents: the input dispatcher                                        *)
(***************************************************************************)
\* characters the user types
TypedChars == {"B"}

\* the commands of the keys of the switch on ev.Key
KeyCommands ==
    {KeyEvent(t, "") : t \in {"EventSelected", "EventShutdown",
                              "EventMoveCursorBackwardOneRune",
                              "EventMoveCursorForwardOneRune",
                              "EventDeleteWordBackward", "EventDeleteRuneBackward",
                              "EventDeleteRuneForward", "EventMoveSelectionDownOne",
                              "EventMoveSelectionUpOne",
                              "EventMoveCursorBackwardOneWord",
                              "EventMoveCursorForwardOneWord"}}
    \cup {KeyEvent("EventInsertRune", c) : c \in TypedChars \cup {" "}}

\* columns and rows of the mouse events
MouseCols == {1, 2}

MouseRows == 2..(Height - 1)

MouseKeys == {"MouseRelease", "MouseWheelDown", "MouseWheelUp", "MouseLeft",
              "MouseMiddle"}

\* the switch on ev.Key of a mouse event: curr
Curr(key, x, y, pv) ==
    CASE key = "MouseRelease" ->
             IF pv = "EventMousePress"
             THEN MouseEvent("EventMouseClick", x, y) ELSE ZeroEvent
      [] key = "MouseWheelDown" -> MouseEvent("EventMouseScrollDown", x, y)
      [] key = "MouseWheelUp" -> MouseEvent("EventMouseScrollUp", x, y)
      [] key = "MouseLeft" ->
             IF pv = "EventMousePress" \/ pv = "EventMouseDrag"
             THEN MouseEvent("EventMouseDrag", x, y)
             ELSE MouseEvent("EventMousePress", x, y)
      [] OTHER -> ZeroEvent

CanPoll == phase = "running" /\ sending = NoEvent /\ inputs < MaxInputs

\* a keyboard event sent the way a mouse event is, select { case eventCh <-
\* ev: default: }, while run is not waiting in its receive: ev is dropped
SendKeyBestEffort(ev) ==
    /\ sending' = NoEvent
    /\ outstanding' = outstanding + 1

\* eventCh <- ev of a keyboard event: pollEvents waits until run receives it
SendKey(ev) ==
    /\ sending' = ev
    /\ outstanding' = outstanding + 1

PollKey(cmd) ==
    /\ CanPoll
    /\ inputs' = inputs + 1
    /\ SendKey(cmd)
    /\ UNCHANGED <<program, crawler, prev, screen>>
    /\ UNCHANGED aside

\* a key that has no command: ev.Ch = 0, or Alt with a character other than b, f
PollOtherKey ==
    /\ CanPoll
    /\ inputs' = inputs + 1
    /\ UNCHANGED <<program, crawler, prev, sending, outstanding, screen>>
    /\ UNCHANGED aside

\* termbox.EventError
PollError ==
    /\ CanPoll
    /\ inputs' = inputs + 1
    /\ sending' = Event("EventError", "", 0, 0, "error")
    /\ UNCHANGED <<program, crawler, prev, outstanding, screen>>
    /\ UNCHANGED aside

\* A mouse event whose `select { case eventCh <- curr: default: }` finds run
\* waiting in its receive: run takes curr and handles it.
PollMouse(key, x, y) ==
    /\ CanPoll
    /\ inputs' = inputs + 1
    /\ prev' = Curr(key, x, y, prev).evType
    /\ LET r == run(Cur, Curr(key, x, y, prev))
       IN  Fits(r) /\ Set(r)
    /\ UNCHANGED <<crawler, sending, outstanding, screen>>
    /\ UNCHANGED aside

\* A mouse event whose select finds run busy with an earlier event: the
\* default case drops curr.
PollMouseDropped(key) ==
    /\ CanPoll
    /\ inputs' = inputs + 1
    /\ prev' = Curr(key, 0, 0, prev).evType
    /\ UNCHANGED <<program, crawler, sending, outstanding, screen>>
    /\ UNCHANGED aside

(***************************************************************************)
(* run: the event loop.  Receiving an event and handling it is one step.   *)
(***************************************************************************)
\* run receives the event pollEvents is waiting to send
ReceiveKey ==
    /\ phase = "running"
    /\ sending # NoEvent
    /\ LET r == run(Cur, sending)
       IN  Fits(r) /\ Set(r)
    /\ sending' = NoEvent
    /\ outstanding' = IF sending.src = "key" THEN outstanding - 1 ELSE outstanding
    /\ UNCHANGED <<crawler, prev, inputs, screen>>
    /\ UNCHANGED aside

\* run receives the EventSelected a goroutine of MouseClick is waiting to send
ReceiveClick ==
    /\ phase = "running"
    /\ tasks["ClickSend"] > 0
    /\ Set(run(Ran(Cur, "ClickSend"), Event("EventSelected", "", 0, 0, "mouse")))
    /\ UNCHANGED <<crawler, dispatcher, screen>>
    /\ UNCHANGED aside

(***************************************************************************)
(* The race: run receives an edit of the query and handles it while a pass *)
(* that calls Score is under way.  The pass started before the edit and    *)
(* ends after it, so both finish in the one step.                          *)
(***************************************************************************)
\* the program after run has handled the event pollEvents is waiting to send
Edited == run(Cur, sending)

EditPending ==
    /\ phase = "running"
    /\ sending # NoEvent
    /\ sending.evType \in {"EventInsertRune", "EventDeleteRuneBackward",
                           "EventDeleteRuneForward", "EventDeleteWordBackward"}
    /\ Edited.value # value

Received ==
    /\ sending' = NoEvent
    /\ outstanding' = outstanding - 1
    /\ UNCHANGED <<prev, inputs>>

\* the edit runs during go b.Recalculate()
RaceRecalculate ==
    /\ EditPending
    /\ tasks["Recalculate"] > 0
    /\ \E sc \in RacingScores(filepaths, value, Edited.value) :
           LET r == RecalculateBy(Ran(Edited, "Recalculate"), sc)
           IN  Fits(r) /\ Set(r)
    /\ Received
    /\ UNCHANGED <<crawler, screen>>
    /\ UNCHANGED aside

\* the edit runs during results.Recalculate() of an earlier edit
RaceRecalcSelect ==
    /\ EditPending
    /\ tasks["RecalcSelect"] > 0
    /\ \E sc \in RacingScores(filepaths, value, Edited.value) :
           LET r == Go(RecalculateBy(Ran(Edited, "RecalcSelect"), sc), "SelectBestMatch")
           IN  Fits(r) /\ Set(r)
    /\ Received
    /\ UNCHANGED <<crawler, screen>>
    /\ UNCHANGED aside

\* the edit runs during results.SelectBestMatch() of an earlier edit
RaceSelectBestMatch ==
    /\ EditPending
    /\ tasks["SelectBestMatch"] > 0
    /\ \E sc \in RacingScores(matches, value, Edited.value) :
           LET r == SelectBestMatchBy(Ran(Edited, "SelectBestMatch"), sc)
           IN  Fits(r) /\ Set(r)
    /\ Received
    /\ UNCHANGED <<crawler, screen>>
    /\ UNCHANGED aside

(***************************************************************************)
(* main after run has returned                                             *)
(***************************************************************************)
\* termbox.Close()
MainClose ==
    /\ phase = "returned"
    /\ phase' = "closed"
    /\ UNCHANGED <<value, cursorOffsetX, filepaths, matches, selected,
                   displayOffsetY, tasks, result, crawler, dispatcher, screen>>
    /\ UNCHANGED aside

\* os.Stdout.WriteString(result) and the end of the process
MainExit ==
    /\ phase = "closed"
    /\ phase' = "exited"
    /\ UNCHANGED <<value, cursorOffsetX, filepaths, matches, selected,
                   displayOffsetY, tasks, result, crawler, dispatcher, screen>>
    /\ UNCHANGED aside

Next ==
    \/ InitAppend
    \/ \E id \in BatchIds : InitReceive(id)
    \/ RunRecalculate
    \/ RunRecalcSelect
    \/ RunSelectBestMatch
    \/ RunMouseScrollUp
    \/ RunMouseScrollDown
    \/ DrawSearch
    \/ DrawResults
    \/ \E cmd \in KeyCommands : PollKey(cmd)
    \/ PollOtherKey
    \/ PollError
    \/ \E key \in MouseKeys, x \in MouseCols, y \in MouseRows : PollMouse(key, x, y)
    \/ \E key \in MouseKeys : PollMouseDropped(key)
    \/ ReceiveKey
    \/ ReceiveClick
    \/ RaceRecalculate
    \/ RaceRecalcSelect
    \/ RaceSelectBestMatch
    \/ MainClose
    \/ MainExit

Spec == Init /\ [][Next]_vars

(***************************************************************************)
(* Properties                                                              *)
(***************************************************************************)
\* rows of the list the terminal shows
VisibleRows == Height - 3

\* no goroutine that recomputes the list or the selection is pending: the
\* last Recalculate ran after the last change of the query and of filepaths
Settled ==
    /\ tasks["Recalculate"] = 0
    /\ tasks["RecalcSelect"] = 0
    /\ tasks["SelectBestMatch"] = 0

Elements(s) == {s[i] : i \in 1..Len(s)}

\* C1: immediately after every Recalculate, selected lies in
\* [-1, len(matches) - 1], and selected = -1 exactly when matches is empty.
C1_SelectionAfterRecalculate ==
    [][(RunRecalculate \/ RunRecalcSelect \/ RaceRecalculate \/ RaceRecalcSelect) =>
          /\ selected' \in (-1)..(Len(matches') - 1)
          /\ (selected' = -1) <=> (matches' = <<>>)]_vars

\* C2: after every step that changes selected to an entry of a non-empty
\* list, displayOffsetY <= selected <= displayOffsetY + VisibleRows - 1.
C2_SelectionVisibleAfterChange ==
    [][(selected' # selected /\ InRange(selected', matches')) =>
          /\ displayOffsetY' <= selected'
          /\ selected' <= displayOffsetY' + VisibleRows - 1]_vars

\* every candidate of the batch scores 0 against the query
ZeroBatch(id) ==
    \A i \in 1..Len(Batches[id]) : ~Positive(Score(value, Batches[id][i]))

\* C3: a batch whose candidates all score 0 arrives while the list is
\* settled; it enters filepaths, and the Recalculate that AppendFilepaths
\* started leaves matches the same sequence and selected the same index.
C3_ZeroBatchKeepsMatchList ==
    [][\A id \in BatchIds :
          (InitReceive(id) /\ Settled /\ ZeroBatch(id)) =>
              /\ Elements(Batches[id]) \subseteq Elements(filepaths')
              /\ Recalculate(Cur').matches = matches
              /\ Recalculate(Cur').selected = selected]_vars

\* C4: a batch arrives while the list is settled and selected denotes the
\* candidate P; after the Recalculate that AppendFilepaths started, selected
\* still denotes P.
C4_ArrivalKeepsSelectedCandidate ==
    [][\A id \in BatchIds :
          (InitReceive(id) /\ Settled /\ InRange(selected, matches)) =>
              LET r == Recalculate(Cur')
              IN  /\ InRange(r.selected, r.matches)
                  /\ r.matches[r.selected + 1] = matches[selected + 1]]_vars

\* s lists its paths by shorter length first, then in lexical order
ByLengthThenLexical(s) ==
    \A i, j \in 1..Len(s) :
        i < j => \/ Len(s[i]) < Len(s[j])
                 \/ Len(s[i]) = Len(s[j]) /\ StrLess(s[i], s[j])

\* C5: when the query is empty and its recomputation has completed, matches
\* is all of filepaths, by shorter length first and then in lexical order.
C5_EmptyQueryListing ==
    (value = <<>> /\ Settled /\ initPc = "loop") =>
        /\ Elements(matches) = Elements(filepaths)
        /\ Len(matches) = Len(filepaths)
        /\ ByLengthThenLexical(matches)

\* every goroutine a command or a batch started has run, and no frame is
\* being painted
Quiescent ==
    /\ phase = "running"
    /\ initPc = "loop"
    /\ \A k \in TaskKinds \ {"ClickSend"} : tasks[k] = 0
    /\ painting = <<>>
    /\ sending = NoEvent

\* C6: once every recompute, reselect, scroll and repaint goroutine has
\* finished, the frame flushed last shows the current query, matches,
\* selected and displayOffsetY.
C6_LastFrameIsCurrent ==
    Quiescent =>
        /\ frame # <<>>
        /\ frame.value = value
        /\ frame.matches = matches
        /\ frame.selected = selected
        /\ frame.off = displayOffsetY

\* the query matches no candidate of filepaths
NoCandidateMatches ==
    \A i \in 1..Len(filepaths) : ~Positive(Score(value, filepaths[i]))

\* C7: when run processes a confirm while the query matches no candidate,
\* run returns ".".
C7_ConfirmOfNonMatchingQuery ==
    [][(/\ NoCandidateMatches
        /\ \/ ReceiveKey /\ sending.evType = "EventSelected"
           \/ ReceiveClick) =>
          /\ phase' = "returned"
          /\ result' = <<".">>]_vars

\* C8: a release that does not directly follow a Press changes neither the
\* query, the cursor, selected, displayOffsetY nor the outcome of the session;
\* a release that directly follows a Press is a Click.
C8_ReleaseWithoutPressSuppressed ==
    [][\A x \in MouseCols, y \in MouseRows :
          PollMouse("MouseRelease", x, y) =>
              IF prev = "EventMousePress"
              THEN prev' = "EventMouseClick"
              ELSE UNCHANGED <<value, cursorOffsetX, selected, displayOffsetY,
                               phase, result>>]_vars

\* C9: a Click completes normally, leaves matches, selected and
\* displayOffsetY unchanged, and starts the confirm only when its row is the
\* row of matches[selected] and its column lies within the displayed path.
C9_ClickConfirmsOnlySelectedRowText ==
    [][\A x \in MouseCols, y \in MouseRows :
          (prev = "EventMousePress" /\ PollMouse("MouseRelease", x, y)) =>
              /\ phase' = "running"
              /\ UNCHANGED <<matches, selected, displayOffsetY>>
              /\ (tasks'["ClickSend"] > tasks["ClickSend"]) =>
                    /\ InRange(selected, matches)
                    /\ y + displayOffsetY - 3 = selected
                    /\ 0 <= x - 2
                    /\ x - 2 < Len(displayPath(matches[selected + 1]))]_vars

MaxQuery == 4

\* characters of the editor specification: two word characters, one delimiter
EditorChars == {"a", "B", " "}

EditorInit == Init

\* the method has returned: r holds the query and the cursor it left
Edit(r) ==
    /\ value' = r.value
    /\ cursorOffsetX' = r.cursor
    /\ UNCHANGED <<filepaths, matches, selected, displayOffsetY, tasks, phase,
                   result, crawler, dispatcher, screen>>
    /\ UNCHANGED aside

EditInsertRune(c) == Len(value) < MaxQuery /\ Edit(InsertRune(Cur, c))

EditMoveCursorOneRuneBackward == Edit(MoveCursorOneRuneBackward(Cur))

EditMoveCursorOneRuneForward == Edit(MoveCursorOneRuneForward(Cur))

EditMoveCursorOneWordBackward == Edit(MoveCursorOneWordBackward(Cur))

EditMoveCursorOneWordForward == Edit(MoveCursorOneWordForward(Cur))

EditDeleteRuneBackward == Edit(DeleteRuneBackward(Cur))

EditDeleteWordBackward == Edit(DeleteWordBackward(Cur))

EditDeleteRuneForward == Edit(DeleteRuneForward(Cur))

EditorNext ==
    \/ \E c \in EditorChars : EditInsertRune(c)
    \/ EditMoveCursorOneRuneBackward
    \/ EditMoveCursorOneRuneForward
    \/ EditMoveCursorOneWordBackward
    \/ EditMoveCursorOneWordForward
    \/ EditDeleteRuneBackward
    \/ EditDeleteWordBackward
    \/ EditDeleteRuneForward

EditorSpec == EditorInit /\ [][EditorNext]_vars

\* C11: after any sequence of editor operations from the empty query with
\* cursor 0, 0 <= cursorOffsetX <= len(value).
C11_CursorWithinQuery ==
    /\ 0 <= cursorOffsetX
    /\ cursorOffsetX <= Len(value)

\* the cursor stands inside the query "a B", before its delimiter
C11_CursorInsideQuery ==
    /\ value = <<"a", " ", "B">>
    /\ cursorOffsetX = 1

(***************************************************************************)
(* searchBox.Score alone: one call, for every query of up to MaxQuery      *)
(* characters and every path of the tree or of up to MaxPath characters    *)
(* below basepath.                                                         *)
(***************************************************************************)
\* longest name of a directory of the Score specification
MaxPath == 3

\* runes of the queries and of the names of the directories
ScoreChars == {"a", "B", "E9", RuneError}

PathChars == {"a", "A", "E9"}

ScoreQueries == UNION {[1..n -> ScoreChars] : n \in 0..MaxQuery}

\* string(runes)
RECURSIVE Utf8String(_)
Utf8String(w) == IF w = <<>> THEN <<>> ELSE Utf8(Head(w)) \o Utf8String(Tail(w))

ScorePaths ==
    AllDirs \cup {basepath \o <<"/">> \o Utf8String(w) :
                     w \in UNION {[1..n -> PathChars] : n \in 1..MaxPath}}

\* the query is value, the candidate is the one path of filepaths
ScoreInit ==
    /\ value \in ScoreQueries
    /\ cursorOffsetX = Len(value)
    /\ filepaths \in {<<path>> : path \in ScorePaths}
    /\ matches = <<>>
    /\ selected = 0
    /\ displayOffsetY = 0
    /\ tasks = [k \in TaskKinds |-> 0]
    /\ phase = "running"
    /\ result = <<>>
    /\ initPc = "loop"
    /\ delivered = {}
    /\ prev = ZeroEvent.evType
    /\ sending = NoEvent
    /\ inputs = 0
    /\ outstanding = 0
    /\ painting = <<>>
    /\ frame = <<>>
    /\ scored = <<>>
    /\ NoLocks

\* score := search.Score(filepath)
ScoreCall ==
    /\ scored = <<>>
    /\ scored' = Score(value, filepaths[1])
    /\ UNCHANGED <<program, crawler, dispatcher, screen, locks>>

ScoreNext == ScoreCall

ScoreSpec == ScoreInit /\ [][ScoreNext]_vars

\* the runes of q occur among the runes p in order, at strictly increasing
\* positions, letter case aside
Embeds(q, p) ==
    \E f \in [1..Len(q) -> 1..Len(p)] :
        /\ \A i, j \in 1..Len(q) : i < j => f[i] < f[j]
        /\ \A i \in 1..Len(q) : ToLower(p[f[i]]) = ToLower(q[i])

\* C12: Score returns 0 exactly when the query is not a case-insensitive
\* subsequence of the path relative to basepath; the empty query scores
\* every candidate positive.
C12_ScoreZeroIffNoSubsequence ==
    scored # <<>> =>
        /\ Positive(scored) <=> Embeds(value, Runes(displayPath(filepaths[1])))
        /\ value = <<>> => Positive(scored)

(***************************************************************************)
(* Autoselect                                                              *)
(***************************************************************************)
\* sel is the smallest index of ms whose score against q is the largest of ms
FirstBest(sel, ms, q) ==
    /\ InRange(sel, ms)
    /\ \A j \in 1..Len(ms) : ~ScoreGt(Score(q, ms[j]), Score(q, ms[sel + 1]))
    /\ \A j \in 1..sel : ScoreGt(Score(q, ms[sel + 1]), Score(q, ms[j]))

CursorMoves ==
    {"EventMoveCursorBackwardOneRune", "EventMoveCursorForwardOneRune",
     "EventMoveCursorBackwardOneWord", "EventMoveCursorForwardOneWord"}

\* C13: when the Recalculate of an edit's goroutine has run with no edit
\* during it and matches is not empty, the SelectBestMatch of that goroutine,
\* run next, sets selected to the smallest index whose score is the maximum
\* over matches; a cursor movement or the arrival of a batch starts no such
\* goroutine.
C13_AutoselectFirstBest ==
    [][/\ (/\ tasks'["RecalcSelect"] < tasks["RecalcSelect"]
           /\ matches' # <<>>
           /\ RunRecalcSelect) =>
              FirstBest(SelectBestMatch(Cur').selected, matches', value')
       /\ (\/ sending # NoEvent /\ sending.evType \in CursorMoves /\ ReceiveKey
           \/ initPc' # initPc /\ InitAppend
           \/ \E id \in delivered' \ delivered : InitReceive(id)) =>
              /\ tasks'["RecalcSelect"] = tasks["RecalcSelect"]
              /\ tasks'["SelectBestMatch"] = tasks["SelectBestMatch"]]_vars

\* the one command so far typed B; its goroutine has moved selected from
\* /r/ab, score 1/3, to /r/bA, score 1/2
C13_AutoselectMovedSelection ==
    /\ inputs = 1
    /\ value = <<"B">>
    /\ Settled
    /\ matches = <<DirAb, DirBA>>
    /\ selected = 1

(***************************************************************************)
(* The terminal after termbox.Close                                        *)
(***************************************************************************)
\* a step of the goroutine of draw that calls termbox: Clear and SetCell of
\* search.Draw, SetCell of results.Draw and Flush
TerminalOperation == DrawSearch \/ DrawResults

\* C14: once run has returned and main has called termbox.Close, no goroutine
\* performs an operation on the terminal.
C14_NoTerminalUseAfterClose ==
    [][phase = "closed" => ~TerminalOperation]_vars

(***************************************************************************)
(* Recomputation under fair scheduling: edits of the query, the crawler,   *)
(* the goroutines that recompute and the repaints                          *)
(***************************************************************************)
EditCommands ==
    {KeyEvent(t, "") : t \in {"EventDeleteWordBackward", "EventDeleteRuneBackward",
                              "EventDeleteRuneForward",
                              "EventMoveCursorBackwardOneRune"}}
    \cup {KeyEvent("EventInsertRune", c) : c \in TypedChars \cup {" "}}

LiveNext ==
    \/ InitAppend
    \/ \E id \in BatchIds : InitReceive(id)
    \/ RunRecalculate
    \/ RunRecalcSelect
    \/ RunSelectBestMatch
    \/ DrawSearch
    \/ DrawResults
    \/ \E cmd \in EditCommands : PollKey(cmd)
    \/ ReceiveKey
    \/ RaceRecalculate
    \/ RaceRecalcSelect
    \/ RaceSelectBestMatch

\* The step in which a goroutine of the kind runs to its end with no edit of
\* the query during it, told by what it does to tasks and to value: of the
\* steps of LiveNext only RunRecalculate, RunRecalcSelect and
\* RunSelectBestMatch take a goroutine of their kind from tasks and leave
\* value alone.  r is the program after the goroutine has run.
Scheduled(kind, r) ==
    /\ Alive
    /\ tasks[kind] > 0
    /\ tasks' = r.tasks
    /\ value' = value

\* the Go scheduler runs every goroutine that can run, and a sync.Mutex
\* that is released is handed to a goroutine that waits for it
LiveFairness ==
    /\ WF_tasks(Scheduled("Recalculate", Ran(Cur, "Recalculate")))
    /\ WF_tasks(Scheduled("RecalcSelect",
                          Go(Ran(Cur, "RecalcSelect"), "SelectBestMatch")))
    /\ WF_tasks(Scheduled("SelectBestMatch", Ran(Cur, "SelectBestMatch")))
    /\ WF_vars(DrawSearch)
    /\ WF_vars(DrawResults)

LiveSpec == Init /\ [][LiveNext]_vars /\ LiveFairness

\* matches is what Recalculate makes of the query and of filepaths
Fresh == matches = Filtered(ScoresOf(value), filepaths)

\* C15: from some point on matches is, and stays, the candidates of
\* filepaths that score above 0 for the query, in the order of filepaths,
\* whatever the interleaving of the edits, the batches and the goroutines
\* that recompute.
C15_MatchListEventuallyFresh == <>[]Fresh

\* B was typed and deleted again; the goroutines of both edits have run and
\* matches is all of the tree again
C15_RecomputedAfterDelete ==
    /\ inputs = 2
    /\ value = <<>>
    /\ delivered = BatchIds
    /\ Settled
    /\ Len(matches) = 5

(***************************************************************************)
(* The mutexes.  What a goroutine does with them is a sequence of          *)
(* operations: Lock and Unlock of a mutex and the `go` statements between  *)
(* them; a deferred Unlock is the last operation of its method.            *)
(***************************************************************************)
MaxCommands == 1

MaxBatches == 1

Lock(m) == <<"Lock", m>>

Unlock(m) == <<"Unlock", m>>

GoStmt(kind) == <<"go", kind>>

\* InsertRune with the recomputation called in place, under search.mu
InsertRuneNested ==
    <<Lock("search.mu"), Lock("results.mu"), Unlock("results.mu"),
      Lock("results.mu"), Unlock("results.mu"), Unlock("search.mu")>>

\* searchBox.InsertRune, and the Delete methods when they change the query
InsertRuneLocks == <<Lock("search.mu"), GoStmt("RecalcSelect"), Unlock("search.mu")>>

\* the MoveCursor methods, and the Delete methods at the end of the query
MoveCursorLocks == <<Lock("search.mu"), Unlock("search.mu")>>

\* MoveSelectionDownOne, MoveSelectionUpOne, MouseScrollDown, MouseScrollUp,
\* MouseClick, Selected
ResultsLocks == <<Lock("results.mu"), Unlock("results.mu")>>

\* MousePress above or below the list
MousePressLocks == <<Lock("results.mu"), GoStmt("MouseScroll"), Unlock("results.mu")>>

\* resultsBox.AppendFilepaths
AppendFilepathsLocks ==
    <<Lock("results.mu"), GoStmt("Recalculate"), Unlock("results.mu")>>

\* the goroutine of draw(): search.Draw, results.Draw, debug.Draw
DrawLocks ==
    <<Lock("drawMutex"), Lock("search.mu"), Unlock("search.mu"),
      Lock("results.mu"), Unlock("results.mu"),
      Lock("debug.mu"), Unlock("debug.mu"), Unlock("drawMutex")>>

\* resultsBox.Init: AppendFilepaths of basepath, then AppendFilepaths and
\* draw() for every batch
RECURSIVE InitLocks(_)
InitLocks(n) ==
    IF n = 0 THEN AppendFilepathsLocks
    ELSE InitLocks(n - 1) \o AppendFilepathsLocks \o <<GoStmt("draw")>>

\* what the goroutine a `go` statement starts does
Script(kind) ==
    CASE kind = "draw" -> DrawLocks
      [] kind = "Recalculate" -> ResultsLocks
      [] kind = "RecalcSelect" -> ResultsLocks \o ResultsLocks
      [] kind = "MouseScroll" -> ResultsLocks
      [] kind = "Init" -> InitLocks(MaxBatches)

\* one turn of the loop of run: the method of the command, then draw()
CommandLocks ==
    {m \o <<GoStmt("draw")>> :
        m \in {InsertRuneLocks, MoveCursorLocks, ResultsLocks, MousePressLocks}}

\* goroutine 1 is run, the others are in the order of their `go`
RunLoop == 1

\* the most goroutines there can be: run, Init, the first draw, two for
\* every command, the Recalculate of basepath, and for every batch a
\* Recalculate and a draw
MaxGoroutines == 3 + 2 * MaxCommands + 1 + 2 * MaxBatches

\* run has started results.Init and called draw()
LockInit ==
    /\ value = <<>>
    /\ cursorOffsetX = 0
    /\ filepaths = <<>>
    /\ matches = <<>>
    /\ selected = 0
    /\ displayOffsetY = 0
    /\ tasks = [k \in TaskKinds |-> 0]
    /\ phase = "running"
    /\ result = <<>>
    /\ initPc = "start"
    /\ delivered = {}
    /\ prev = ZeroEvent.evType
    /\ sending = NoEvent
    /\ inputs = 0
    /\ outstanding = 0
    /\ painting = <<>>
    /\ frame = <<>>
    /\ scored = <<>>
    /\ owner = [m \in Mutexes |-> 0]
    /\ goroutines = <<<<>>, Script("Init"), Script("draw")>>
    /\ issued = 0

Todo(g) == Head(goroutines[g])

Done(g) == [goroutines EXCEPT ![g] = Tail(@)]

\* run receives a command and starts on its method
RunCommand(script) ==
    /\ issued < MaxCommands
    /\ goroutines[RunLoop] = <<>>
    /\ goroutines' = [goroutines EXCEPT ![RunLoop] = script]
    /\ issued' = issued + 1
    /\ UNCHANGED <<program, crawler, dispatcher, screen, scored, owner>>

\* mu.Lock(): the goroutine goes on when the mutex is free
LockStep(g) ==
    /\ g <= Len(goroutines)
    /\ goroutines[g] # <<>>
    /\ Todo(g)[1] = "Lock"
    /\ owner[Todo(g)[2]] = 0
    /\ owner' = [owner EXCEPT ![Todo(g)[2]] = g]
    /\ goroutines' = Done(g)
    /\ UNCHANGED <<program, crawler, dispatcher, screen, scored, issued>>

\* mu.Unlock()
UnlockStep(g) ==
    /\ g <= Len(goroutines)
    /\ goroutines[g] # <<>>
    /\ Todo(g)[1] = "Unlock"
    /\ owner' = [owner EXCEPT ![Todo(g)[2]] = 0]
    /\ goroutines' = Done(g)
    /\ UNCHANGED <<program, crawler, dispatcher, screen, scored, issued>>

\* a `go` statement
GoStep(g) ==
    /\ g <= Len(goroutines)
    /\ goroutines[g] # <<>>
    /\ Todo(g)[1] = "go"
    /\ goroutines' = Append(Done(g), Script(Todo(g)[2]))
    /\ UNCHANGED <<program, crawler, dispatcher, screen, scored, owner, issued>>

Goroutines == 1..MaxGoroutines

Step(g) == LockStep(g) \/ UnlockStep(g) \/ GoStep(g)

LockNext ==
    \/ \E script \in CommandLocks : RunCommand(script)
    \/ \E g \in Goroutines : LockStep(g)
    \/ \E g \in Goroutines : UnlockStep(g)
    \/ \E g \in Goroutines : GoStep(g)

\* the Go scheduler runs every goroutine whose next operation stays possible
LockFairness == \A g \in Goroutines : WF_vars(Step(g))

LockSpec == LockInit /\ [][LockNext]_vars /\ LockFairness

Holds(g, m) == owner[m] = g

\* g has called Lock and has not gone on
Waiting(g) ==
    /\ g <= Len(goroutines)
    /\ goroutines[g] # <<>>
    /\ Todo(g)[1] = "Lock"

\* C16: no goroutine holds search.mu and results.mu at the same time, and
\* every goroutine that calls Lock goes on: none waits for ever for
\* drawMutex, search.mu, results.mu or debug.mu.
C16_LocksNeverNestedNorStuck ==
    /\ [](\A g \in Goroutines : ~(Holds(g, "search.mu") /\ Holds(g, "results.mu")))
    /\ \A g \in Goroutines : Waiting(g) ~> ~Waiting(g)

\* a goroutine of draw holds drawMutex and search.mu while run, in a method
\* of searchBox, waits for search.mu
C16_RunWaitsForDraw ==
    /\ Waiting(RunLoop)
    /\ Todo(RunLoop) = Lock("search.mu")
    /\ \E g \in Goroutines :
           /\ g # RunLoop
           /\ Holds(g, "drawMutex")
           /\ Holds(g, "search.mu")

(***************************************************************************)
(* The viewport and the mouse                                              *)
(***************************************************************************)
\* a step in which MouseScrollDown runs: the goroutine MousePress started,
\* or run handling a wheel event
ScrollDownRuns ==
    \/ tasks'["MouseScrollDown"] < tasks["MouseScrollDown"] /\ RunMouseScrollDown
    \/ \E x \in MouseCols, y \in MouseRows : PollMouse("MouseWheelDown", x, y)

\* C17: MouseScrollDown adds one to displayOffsetY only when a row of
\* matches lies below the window, len(matches) - displayOffsetY >
\* VisibleRows; when the rows from displayOffsetY on fit in the window it
\* leaves displayOffsetY unchanged.
C17_ScrollDownOnlyWithRowsBelow ==
    [][(displayOffsetY' # displayOffsetY /\ ScrollDownRuns) =>
          Len(matches) - displayOffsetY > VisibleRows]_vars

\* C18: displayOffsetY is never negative.
C18_ViewportNeverNegative == displayOffsetY >= 0

\* a step in which run handles an EventMousePress or an EventMouseDrag for
\* the row y
PressRuns(y) ==
    /\ sending = NoEvent
    /\ prev' \in {"EventMousePress", "EventMouseDrag"}
    /\ \E x \in MouseCols : PollMouse("MouseLeft", x, y)

\* C19: after MousePress(y), selected is unchanged or it is
\* y - 3 + displayOffsetY and an index of matches.
C19_PressSelectsExistingRow ==
    [][\A y \in MouseRows :
          PressRuns(y) =>
              \/ selected' = selected
              \/ /\ selected' = y - 3 + displayOffsetY
                 /\ InRange(selected', matches')]_vars

SelectionCommands == {"EventMoveSelectionDownOne", "EventMoveSelectionUpOne"}

\* the selection command of the event, as a function of the program
SelectionMove(r, ev) ==
    IF ev.evType = "EventMoveSelectionDownOne" THEN MoveSelectionDownOne(r)
    ELSE MoveSelectionUpOne(r)

\* C20: run handles a MoveSelectionDownOne or MoveSelectionUpOne while the
\* goroutine of the edit before it has still to run, and nothing else is
\* pending; when that goroutine has run, selected is what Recalculate and
\* SelectBestMatch first and the selection command second make of it.
C20_EffectsInCommandOrder ==
    [][(/\ sending # NoEvent
        /\ sending.evType \in SelectionCommands
        /\ tasks["RecalcSelect"] = 1
        /\ tasks["Recalculate"] = 0
        /\ tasks["SelectBestMatch"] = 0
        /\ ReceiveKey) =>
           SelectBestMatch(Recalculate(Cur')).selected
               = SelectionMove(SelectBestMatch(Recalculate(Cur)), sending).selected]_vars

====
